---- MODULE Spec2Model ----
(***************************************************************************)
(* A model of DCTRedux.py: the DataEnc frame class (construction from a    *)
(* FITS file, region split, overscan correction, scale, avg and the        *)
(* combination operators) and its role subclasses Bias, Flat and Image.    *)
(*                                                                         *)
(* Objects live in `heap`, indexed by the order of their creation.  A      *)
(* numpy array is a record of its shape and its samples; a sample is an    *)
(* IEEE float, modelled exactly as an extended rational (rounding is left  *)
(* out; signed zeros, infinities and NaN are kept).                        *)
(***************************************************************************)
EXTENDS Integers, Sequences, FiniteSets, TLC

(***************************************************************************)
(* Bounds of the model.                                                    *)
(***************************************************************************)
\* calls made in one run
MaxSteps == 3
\* frames constructed from files in one run
MaxLoads == 2
\* frames passed to one call of avg
MaxArgs == 3
\* the widest and the highest file of the geometry runs
MaxNAXIS1 == 3

MaxNAXIS2 == 2
\* calls made in one of the accessor runs
MaxAccessorSteps == 5

(***************************************************************************)
(* IEEE floats as extended rationals <<n, d>>:                              *)
(*   d > 0, n # 0, gcd(|n|, d) = 1   the finite non-zero value n/d          *)
(*   <<0, 1>>, <<0, -1>>             +0.0 and -0.0                          *)
(*   <<1, 0>>, <<-1, 0>>             +inf and -inf                          *)
(*   <<0, 0>>                        NaN                                    *)
(***************************************************************************)
Abs(x) == IF x < 0 THEN -x ELSE x

Sgn(x) == IF x < 0 THEN -1 ELSE IF x > 0 THEN 1 ELSE 0

RECURSIVE Gcd(_, _)
Gcd(a, b) == IF b = 0 THEN a ELSE Gcd(b, a % b)

NaN == <<0, 0>>

PosInf == <<1, 0>>

NegInf == <<-1, 0>>

PosZero == <<0, 1>>

NegZero == <<0, -1>>

IsNaN(a) == a = NaN

IsInf(a) == a[2] = 0 /\ a[1] # 0

IsZero(a) == a[1] = 0 /\ a[2] # 0

IsFinite(a) == a[2] # 0

\* the sign bit of a float that is not NaN, as 1 or -1
Sign(a) == IF a[1] # 0 THEN Sgn(a[1]) ELSE a[2]

\* the float of the fraction n/d, d # 0, n # 0
Norm(n, d) ==
    LET s == Sgn(n) * Sgn(d)
        g == Gcd(Abs(n), Abs(d))
    IN  <<s * (Abs(n) \div g), Abs(d) \div g>>

\* the float of an integer
Float(n) == IF n = 0 THEN PosZero ELSE <<n, 1>>

FNeg(a) == IF IsZero(a) THEN <<0, -a[2]>> ELSE <<-a[1], a[2]>>

FAdd(a, b) ==
    IF IsNaN(a) \/ IsNaN(b) THEN NaN
    ELSE IF IsInf(a) /\ IsInf(b) THEN (IF a = b THEN a ELSE NaN)
    ELSE IF IsInf(a) THEN a
    ELSE IF IsInf(b) THEN b
    ELSE LET da == Abs(a[2])
             db == Abs(b[2])
             n  == a[1] * db + b[1] * da
         IN  IF n # 0 THEN Norm(n, da * db)
             ELSE IF a = NegZero /\ b = NegZero THEN NegZero ELSE PosZero

FSub(a, b) == FAdd(a, FNeg(b))

FDiv(a, b) ==
    IF IsNaN(a) \/ IsNaN(b) THEN NaN
    ELSE IF IsInf(a) /\ IsInf(b) THEN NaN
    ELSE IF IsInf(a) THEN <<Sign(a) * Sign(b), 0>>
    ELSE IF IsInf(b) THEN <<0, Sign(a) * Sign(b)>>
    ELSE IF IsZero(b) THEN (IF IsZero(a) THEN NaN ELSE <<Sign(a) * Sign(b), 0>>)
    ELSE IF IsZero(a) THEN <<0, Sign(a) * Sign(b)>>
    ELSE Norm(a[1] * b[2], a[2] * b[1])

\* IEEE ==
FEq(a, b) ==
    /\ ~IsNaN(a)
    /\ ~IsNaN(b)
    /\ (a = b \/ (IsZero(a) /\ IsZero(b)))

\* IEEE <
FLt(a, b) ==
    /\ ~IsNaN(a)
    /\ ~IsNaN(b)
    /\ IF IsInf(a) \/ IsInf(b)
       THEN a # b /\ (a = NegInf \/ b = PosInf)
       ELSE a[1] * Abs(b[2]) < b[1] * Abs(a[2])

(***************************************************************************)
(* numpy arrays (all two-dimensional here): shape <<rows, columns>> and    *)
(* the samples v[row][column].                                             *)
(***************************************************************************)
Max(a, b) == IF a < b THEN b ELSE a

Min(a, b) == IF a < b THEN a ELSE b

\* the r x c array of the samples f[i, j]
Array(r, c, f) ==
    [shape |-> <<r, c>>, v |-> [i \in 1..r |-> [j \in 1..c |-> f[i, j]]]]

\* np.transpose
Transpose(a) ==
    LET r == a.shape[2]
        c == a.shape[1]
    IN  Array(r, c, [i \in 1..r, j \in 1..c |-> a.v[j][i]])

\* a Python slice bound i against a length n
Clamp(i, n) == IF i < 0 THEN Max(i + n, 0) ELSE Min(i, n)

\* a[lo:hi] on the first axis
Slice(a, lo, hi) ==
    LET n == a.shape[1]
        s == Clamp(lo, n)
        e == Clamp(hi, n)
        r == Max(e - s, 0)
        c == a.shape[2]
    IN  Array(r, c, [i \in 1..r, j \in 1..c |-> a.v[s + i][j]])

\* a[lo:] on the first axis
SliceFrom(a, lo) == Slice(a, lo, a.shape[1])

\* np.concatenate((a, b)): along the first axis
Concatenate(a, b) ==
    LET r == a.shape[1] + b.shape[1]
        c == a.shape[2]
    IN  Array(r, c, [i \in 1..r, j \in 1..c |->
                        IF i <= a.shape[1] THEN a.v[i][j] ELSE b.v[i - a.shape[1]][j]])

\* the samples of an array in one sequence, row after row
RECURSIVE Flatten(_)
Flatten(rows) == IF rows = <<>> THEN <<>> ELSE Head(rows) \o Flatten(Tail(rows))

RECURSIVE FSum(_)
FSum(s) == IF s = <<>> THEN PosZero ELSE FAdd(Head(s), FSum(Tail(s)))

\* np.mean: the sum over the number of samples; NaN for an empty array
Mean(a) ==
    LET s == Flatten(a.v)
    IN  IF Len(s) = 0 THEN NaN ELSE FDiv(FSum(s), Float(Len(s)))

Samples(a) == {a.v[i][j] : i \in 1..a.shape[1], j \in 1..a.shape[2]}

\* the binary ufuncs the operators use
Apply(op, x, y) ==
    CASE op = "add" -> FAdd(x, y)
      [] op = "sub" -> FSub(x, y)
      [] op = "div" -> FDiv(x, y)

\* a op= b works when b broadcasts to the shape of a (else ValueError)
CanBroadcast(a, b) ==
    \A k \in 1..2 : b.shape[k] = a.shape[k] \/ b.shape[k] = 1

\* the array a after a op= b, b broadcast to the shape of a
InPlace(op, a, b) ==
    LET r == a.shape[1]
        c == a.shape[2]
    IN  Array(r, c, [i \in 1..r, j \in 1..c |->
            Apply(op, a.v[i][j],
                  b.v[IF b.shape[1] = 1 THEN 1 ELSE i][IF b.shape[2] = 1 THEN 1 ELSE j])])

\* the array a after a -= x, x a scalar
InPlaceScalarSub(a, x) ==
    LET r == a.shape[1]
        c == a.shape[2]
    IN  Array(r, c, [i \in 1..r, j \in 1..c |-> FSub(a.v[i][j], x)])

(***************************************************************************)
(* The files on disk.  A path is a sequence of characters; a FITS file     *)
(* holds a header and an NAXIS2 x NAXIS1 array of floats.                  *)
(***************************************************************************)
PathA == <<"d", "/", "a", ".", "f", "i", "t", "s">>

PathB == <<"b", ".", "f", "i", "t", "s">>

PathC == <<"e", ",", "c", ".", "f", "i", "t", "s">>

PathMissing == <<"n", "o", ".", "f", "i", "t", "s">>

\* the geometries of the files on disk (one row of three columns): an
\* active region of width 1 between two scan columns, and one of width 3
\* with no scan column at all
Scanned == [NAXIS1 |-> 3, NAXIS2 |-> 1, PRESCAN |-> 1, POSTSCAN |-> 1]

Unscanned == [NAXIS1 |-> 3, NAXIS2 |-> 1, PRESCAN |-> 0, POSTSCAN |-> 0]

\* the files on disk: a path and the geometry of the file there
Files == {<<PathA, Scanned>>, <<PathB, Scanned>>, <<PathC, Unscanned>>}

\* the headers of the geometry runs: every width and height up to the
\* bounds, with scan widths from -1 to the width of the file
Headers ==
    [NAXIS1 : 1..MaxNAXIS1, NAXIS2 : 1..MaxNAXIS2,
     PRESCAN : -1..MaxNAXIS1, POSTSCAN : -1..MaxNAXIS1]

\* the keys of an observation a header holds beside its geometry, for the
\* k-th of two observations; DATE-OBS is a string of characters
Observed(k) ==
    Scanned @@ ("DATE-OBS" :> <<"1", "T", <<"2", "3", "4">>[k + 1]>>)
            @@ [AIRMASS |-> 1 + k,
                TELRA |-> 10 + k, TELDEC |-> 20 + k, EXPTIME |-> 30 + k,
                FILTERS |-> <<"V", k>>, GAIN |-> 40 + k, HA |-> 50 + k,
                SCALE |-> 60 + k, OBSTYPE |-> <<"o", k>>]

\* the files of the accessor runs
ObservedFiles ==
    {<<PathA, Observed(0)>>, <<PathB, Observed(1)>>, <<PathC, Observed(2)>>}

\* what distinguishes the samples (and the airmass) of the file at a path
Seed(path) == IF path = PathB THEN 1 ELSE 0

\* fits.open(path)[0] for a file of geometry g at path: header and data
FitsOpen(path, g) ==
    LET pix == [r \in 1..g.NAXIS2, c \in 1..g.NAXIS1 |->
                   Float(Seed(path) + (r - 1) * g.NAXIS1 + (c - 1))]
    IN  [header |-> g @@ [AIRMASS |-> Seed(path) + 1],
         data   |-> Array(g.NAXIS2, g.NAXIS1, pix)]

(***************************************************************************)
(* DataEnc                                                                 *)
(***************************************************************************)
\* re.split('[\\,/]', path)[-1]: what follows the last "," or "/"
LastPart(path) ==
    LET seps == {i \in 1..Len(path) : path[i] \in {",", "/"}}
        from == IF seps = {} THEN 1
                ELSE 1 + CHOOSE i \in seps : \A k \in seps : k <= i
    IN  SubSeq(path, from, Len(path))

\* s[:-5]
DropExtension(s) == IF Len(s) > 5 THEN SubSeq(s, 1, Len(s) - 5) ELSE <<>>

NameOf(path) == DropExtension(LastPart(path))

\* writes through the names __image and __original reach the same array
\* while both names are bound to one object
WriteImage(fr, a) ==
    [fr EXCEPT !.image = a, !.original = IF fr.originalIsImage THEN a ELSE @]

WriteOriginal(fr, a) ==
    [fr EXCEPT !.original = a, !.image = IF fr.originalIsImage THEN a ELSE @]

\* correctImage with the mean of the prescan alone
correctImagePrescanOnly(prescan, image, postscan, subtractOverscans, removeCosmicRays) ==
    IF subtractOverscans
    THEN InPlaceScalarSub(image, Mean(prescan))
    ELSE image

\* __correctImage, on the image read by __init__
correctImage(prescan, image, postscan, subtractOverscans, removeCosmicRays) ==
    IF subtractOverscans
    THEN InPlaceScalarSub(image, Mean(Concatenate(prescan, postscan)))
    ELSE image

\* DataEncInit with the postscan read as data[-POSTSCAN:]
DataEncInitFromEnd(path, file, subtractOverscans, removeCosmicRays) ==
    LET h        == file.header
        data     == Transpose(file.data)
        prescan  == Slice(data, 0, h.PRESCAN)
        image    == Transpose(Slice(data, h.PRESCAN, h.NAXIS1 - h.POSTSCAN))
        postscan == SliceFrom(data, 0 - h.POSTSCAN)
        fixed    == correctImage(prescan, image, postscan,
                                 subtractOverscans, removeCosmicRays)
    IN  [name            |-> <<NameOf(path)>>,
         header          |-> <<h>>,
         prescan         |-> prescan,
         image           |-> fixed,
         postscan        |-> postscan,
         original        |-> fixed,
         originalIsImage |-> TRUE]

\* DataEnc.__init__ on a file that opens: the attributes of the new object
DataEncInit(path, file, subtractOverscans, removeCosmicRays) ==
    LET h        == file.header
        data     == Transpose(file.data)
        prescan  == Slice(data, 0, h.PRESCAN)
        image    == Transpose(Slice(data, h.PRESCAN, h.NAXIS1 - h.POSTSCAN))
        postscan == SliceFrom(data, h.NAXIS1 - h.POSTSCAN)
        fixed    == correctImage(prescan, image, postscan,
                                 subtractOverscans, removeCosmicRays)
    IN  [name            |-> <<NameOf(path)>>,
         header          |-> <<h>>,
         prescan         |-> prescan,
         image           |-> fixed,
         postscan        |-> postscan,
         original        |-> fixed,
         originalIsImage |-> TRUE]

numbImagesCombined(fr) == Len(fr.header)

\* the header-derived properties: the value of the one header, or a list
\* of the values of the headers of the images combined
HeaderValues(fr, key) ==
    IF numbImagesCombined(fr) = 1 THEN fr.header[1][key]
    ELSE IF numbImagesCombined(fr) > 1
         THEN [i \in 1..numbImagesCombined(fr) |-> fr.header[i][key]]
         ELSE "IndexError"

airmass(fr) == HeaderValues(fr, "AIRMASS")

\* str.replace('T', '  ')
RECURSIVE ReplaceT(_)
ReplaceT(str) ==
    IF str = <<>> THEN <<>>
    ELSE (IF Head(str) = "T" THEN <<" ", " ">> ELSE <<Head(str)>>)
         \o ReplaceT(Tail(str))

date(fr) ==
    IF numbImagesCombined(fr) = 1 THEN ReplaceT(fr.header[1]["DATE-OBS"])
    ELSE IF numbImagesCombined(fr) > 1
         THEN [i \in 1..numbImagesCombined(fr) |->
                  ReplaceT(fr.header[i]["DATE-OBS"])]
         ELSE "IndexError"

dec(fr) == HeaderValues(fr, "TELDEC")

expTime(fr) == HeaderValues(fr, "EXPTIME")

filter(fr) == HeaderValues(fr, "FILTERS")

gain(fr) == HeaderValues(fr, "GAIN")

hourAngle(fr) == HeaderValues(fr, "HA")

plateScale(fr) == HeaderValues(fr, "SCALE")

obsType(fr) == HeaderValues(fr, "OBSTYPE")

ra(fr) == HeaderValues(fr, "TELRA")

\* the properties width and height
width(fr) == fr.header[1].NAXIS1 - fr.header[1].PRESCAN - fr.header[1].POSTSCAN

height(fr) == fr.header[1].NAXIS2

\* copy.deepcopy(self): a new object with equal attributes; two attributes
\* bound to one array stay bound to one (copied) array
DeepCopy(fr) == fr

\* CombineInPlace with "result = self" for the deep copy: the arithmetic
\* lands in the receiver
CombineNoCopy(op, self, other) ==
    LET r1 == [self EXCEPT !.name = Append(@, other.name[1]),
                           !.header = Append(@, other.header[1])]
        r2 == [r1 EXCEPT !.prescan = InPlace(op, @, other.prescan)]
        r3 == WriteImage(r2, InPlace(op, r2.image, other.image))
        r4 == WriteOriginal(r3, InPlace(op, r3.original, other.original))
        r5 == [r4 EXCEPT !.postscan = InPlace(op, @, other.postscan)]
    IN  IF /\ CanBroadcast(self.prescan, other.prescan)
           /\ CanBroadcast(self.image, other.image)
           /\ CanBroadcast(self.original, other.original)
           /\ CanBroadcast(self.postscan, other.postscan)
        THEN [outcome |-> "ok", self |-> r5, other |-> other, ret |-> <<r5>>,
              dropped |-> <<>>]
        ELSE [outcome |-> "None", self |-> r2, other |-> other, ret |-> <<>>,
              dropped |-> <<>>]

\* CombineInPlace without the append to name
CombineHeaderOnly(op, self, other) ==
    LET r1 == [self EXCEPT !.header = Append(@, other.header[1])]
        r2 == [r1 EXCEPT !.prescan = InPlace(op, @, other.prescan)]
        r3 == WriteImage(r2, InPlace(op, r2.image, other.image))
        r4 == WriteOriginal(r3, InPlace(op, r3.original, other.original))
        r5 == [r4 EXCEPT !.postscan = InPlace(op, @, other.postscan)]
    IN  IF /\ CanBroadcast(self.prescan, other.prescan)
           /\ CanBroadcast(self.image, other.image)
           /\ CanBroadcast(self.original, other.original)
           /\ CanBroadcast(self.postscan, other.postscan)
        THEN [outcome |-> "ok", self |-> self, other |-> other, ret |-> <<r5>>,
              dropped |-> <<>>]
        ELSE [outcome |-> "None", self |-> self, other |-> other, ret |-> <<>>,
              dropped |-> <<r1>>]

\* the body shared by __add__, __sub__ and __div__.  self and other are the
\* operands as the call leaves them, ret the instance returned ("None":
\* the ValueError of numpy was caught and nothing is returned), dropped the
\* instances whose last reference goes when the call returns (the copy,
\* when it is not returned)
CombineInPlace(op, self, other) ==
    LET r0 == DeepCopy(self)
        r1 == [r0 EXCEPT !.name = Append(@, other.name[1]),
                         !.header = Append(@, other.header[1])]
        r2 == [r1 EXCEPT !.prescan = InPlace(op, @, other.prescan)]
        r3 == WriteImage(r2, InPlace(op, r2.image, other.image))
        r4 == WriteOriginal(r3, InPlace(op, r3.original, other.original))
        r5 == [r4 EXCEPT !.postscan = InPlace(op, @, other.postscan)]
    IN  IF /\ CanBroadcast(self.prescan, other.prescan)
           /\ CanBroadcast(self.image, other.image)
           /\ CanBroadcast(self.original, other.original)
           /\ CanBroadcast(self.postscan, other.postscan)
        THEN [outcome |-> "ok", self |-> self, other |-> other, ret |-> <<r5>>,
              dropped |-> <<>>]
        ELSE [outcome |-> "None", self |-> self, other |-> other, ret |-> <<>>,
              dropped |-> <<r1>>]

add(self, other) == CombineInPlace("add", self, other)

div(self, other) == CombineInPlace("div", self, other)

\* __sub__ written as a copy of __add__ with the operators left as +=
subAdds(self, other) == CombineInPlace("add", self, other)

sub(self, other) == CombineInPlace("sub", self, other)

\* np.min / np.max of a non-empty array: NaN when a sample is NaN
ArrayMin(a) ==
    IF NaN \in Samples(a) THEN NaN
    ELSE CHOOSE x \in Samples(a) : \A y \in Samples(a) : ~FLt(y, x)

ArrayMax(a) ==
    IF NaN \in Samples(a) THEN NaN
    ELSE CHOOSE x \in Samples(a) : \A y \in Samples(a) : ~FLt(x, y)

\* np.clip(x, 0., 1.)
Clip01(x) ==
    IF FLt(x, PosZero) THEN PosZero ELSE IF FLt(Float(1), x) THEN Float(1) ELSE x

\* the cuts a call of scale may pass: <<>> is None, <<c>> the number c
Cuts == {<<>>, <<Float(1)>>}

\* vis.scale_image(image, scale = 'linear', min_cut, max_cut) of the library:
\* a new array, (x - vmin) / (vmax - vmin) clipped to [0, 1], a missing cut
\* being the least / greatest sample
ScaleImage(image, min_cut, max_cut) ==
    LET vmin  == IF min_cut = <<>> THEN ArrayMin(image) ELSE min_cut[1]
        vmax  == IF max_cut = <<>> THEN ArrayMax(image) ELSE max_cut[1]
        range == FSub(vmax, vmin)
        r == image.shape[1]
        c == image.shape[2]
    IN  Array(r, c, [i \in 1..r, j \in 1..c |->
            LET x == FSub(image.v[i][j], vmin)
            IN  Clip01(IF FEq(range, PosZero) THEN x ELSE FDiv(x, range))])

\* scale deriving the image from the image there is
scaleFromImage(self, min_cut, max_cut) ==
    IF Samples(self.image) = {} /\ <<>> \in {min_cut, max_cut}
    THEN [outcome |-> "ValueError", self |-> self]
    ELSE [outcome |-> "ok",
          self |-> [self EXCEPT
                       !.image = ScaleImage(self.image, min_cut, max_cut),
                       !.originalIsImage = FALSE]]

\* scale: the least / greatest of an empty array is a ValueError of numpy
scale(self, min_cut, max_cut) ==
    IF Samples(self.original) = {} /\ <<>> \in {min_cut, max_cut}
    THEN [outcome |-> "ValueError", self |-> self]
    ELSE [outcome |-> "ok",
          self |-> [self EXCEPT
                       !.image = ScaleImage(self.original, min_cut, max_cut),
                       !.originalIsImage = FALSE]]

(***************************************************************************)
(* Bias, Flat, Image                                                       *)
(***************************************************************************)
\* the instance attributes the constructors add to those of DataEnc
BiasInit(path, file, subtractOverscans, removeCosmicRays) ==
    DataEncInit(path, file, subtractOverscans, removeCosmicRays)
        @@ [cls |-> "Bias", attrs |-> <<>>]

ImageInit(path, file, subtractOverscans, removeCosmicRays) ==
    DataEncInit(path, file, subtractOverscans, removeCosmicRays)
        @@ [cls |-> "Image",
            attrs |-> [isBiasCorrected |-> FALSE, isFlatCorrected |-> FALSE]]

\* Image.subtractBias: "self -= biasFrame" binds the local name self to the
\* instance __sub__ returns, and the flag is set on that instance, which is
\* dropped when the method returns.  With None returned, setting the flag
\* is an AttributeError
subtractBias(self, biasFrame) ==
    LET r == sub(self, biasFrame)
    IN  IF r.outcome = "ok"
        THEN [outcome |-> "ok", self |-> r.self, other |-> r.other,
              dropped |-> <<[r.ret[1] EXCEPT !.attrs.isBiasCorrected = TRUE]>>]
        ELSE [outcome |-> "AttributeError", self |-> r.self, other |-> r.other,
              dropped |-> r.dropped]

\* Image.divideFlat: "self /= flatFrame" finds neither __itruediv__ nor
\* __truediv__ on the class, a TypeError
divideFlat(self, flatFrame) ==
    [outcome |-> "TypeError", self |-> self, other |-> flatFrame, dropped |-> <<>>]

\* DataEnc.avg: sum(args) starts from the integer 0, and 0 + args[0] is a
\* TypeError; with no argument the integer 0 has no attribute __prescan
avg(args) ==
    [outcome |-> IF Len(args) = 0 THEN "AttributeError" ELSE "TypeError",
     ret |-> <<>>]

(***************************************************************************)
(* The program state: the objects the caller holds, in the order of their  *)
(* creation; the class counters; whether sys.exit() was called; the last   *)
(* call, its arguments (indices into heap) and how it ended.               *)
(***************************************************************************)
\* heap: the frames the caller holds; held: per class, the instances whose
\* constructor raised and that the exception in flight still references
VARIABLES heap, held, numbBias, numbFlat, numbImages, exited, last, steps

vars == <<heap, held, numbBias, numbFlat, numbImages, exited, last, steps>>

Classes == {"Bias", "Flat", "Image"}

Ids == 1..Len(heap)

\* Bias.getNumbBias(), Flat.getNumbFlat(), Image.getNumbImagesOpened()
getNumbBias == numbBias

getNumbFlat == numbFlat

getNumbImagesOpened == numbImages

\* the frames constructed from a file so far
Loads == Cardinality({i \in Ids : numbImagesCombined(heap[i]) = 1})

Call(op, args, outcome, ret) ==
    [op |-> op, args |-> args, outcome |-> outcome, ret |-> ret]

Init ==
    /\ heap = <<>>
    /\ held = [cls \in Classes |-> 0]
    /\ numbBias = 0
    /\ numbFlat = 0
    /\ numbImages = 0
    /\ exited = FALSE
    /\ steps = 0
    /\ last = Call("start", <<>>, "ok", 0)

\* every call is one step of the run
Step ==
    /\ ~exited
    /\ steps < MaxSteps
    /\ steps' = steps + 1

CanLoad == Loads < MaxLoads

\* Bias(path, subtractOverscans, removeCosmicRays), the file being there
BiasLoaded(path, g, so, rc) ==
    /\ heap' = Append(heap, BiasInit(path, FitsOpen(path, g), so, rc))
    /\ numbBias' = numbBias + 1
    /\ last' = Call("Bias", <<path, so>>, "ok", Len(heap) + 1)
    /\ UNCHANGED <<held, numbFlat, numbImages, exited>>

NewBias(path, g, so, rc) ==
    /\ Step
    /\ CanLoad
    /\ BiasLoaded(path, g, so, rc)

\* Image(path, subtractOverscans, removeCosmicRays), the file being there
NewImage(path, g, so, rc) ==
    /\ Step
    /\ CanLoad
    /\ heap' = Append(heap, ImageInit(path, FitsOpen(path, g), so, rc))
    /\ numbImages' = numbImages + 1
    /\ last' = Call("Image", <<path, so>>, "ok", Len(heap) + 1)
    /\ UNCHANGED <<held, numbBias, numbFlat, exited>>

\* Flat(path, ...): the counter is incremented, then the assignment to the
\* read-only property isBiasCorrected is an AttributeError; the call ends
\* with the instance referenced by the exception, the counter one higher
NewFlat(path, g, so, rc) ==
    /\ Step
    /\ CanLoad
    /\ numbFlat' = numbFlat + 1
    /\ held' = [held EXCEPT !["Flat"] = @ + 1]
    /\ last' = Call("Flat", <<path, so>>, "AttributeError", 0)
    /\ UNCHANGED <<heap, numbBias, numbImages, exited>>

\* a constructor on a path with no file: DataEnc.__init__ prints and calls
\* sys.exit(); the call ends with SystemExit, the instance, never counted,
\* referenced by the exception
NewMissing(cls) ==
    /\ Step
    /\ exited' = TRUE
    /\ held' = [held EXCEPT ![cls] = @ + 1]
    /\ last' = Call(cls, <<PathMissing>>, "SystemExit", 0)
    /\ UNCHANGED <<heap, numbBias, numbFlat, numbImages>>

\* the counters after __del__ of one instance of class cls
Deleted(cls) ==
    /\ numbBias' = IF cls = "Bias" THEN numbBias - 1 ELSE numbBias
    /\ numbFlat' = IF cls = "Flat" THEN numbFlat - 1 ELSE numbFlat
    /\ numbImages' = IF cls = "Image" THEN numbImages - 1 ELSE numbImages

\* the exception of a failed constructor is released, at whatever time
\* after the call (also after sys.exit()): __del__ of its instance runs
ReleaseException(cls) ==
    /\ held[cls] > 0
    /\ held' = [held EXCEPT ![cls] = @ - 1]
    /\ Deleted(cls)
    /\ UNCHANGED <<heap, exited, last, steps>>

Remove(s, i) == SubSeq(s, 1, i - 1) \o SubSeq(s, i + 1, Len(s))

\* del of heap[i], the caller's one reference to it: __del__ runs
Release(i) ==
    /\ Step
    /\ heap' = Remove(heap, i)
    /\ Deleted(heap[i].cls)
    /\ last' = Call("del", <<i>>, "ok", 0)
    /\ UNCHANGED <<held, exited>>

\* DCTReduxGUI.clearLoadedImages(): the lists of frames are rebound to []
\* and __del__ of every frame in them runs
clearLoadedImages ==
    /\ Step
    /\ heap' = <<>>
    /\ numbBias' = numbBias - Cardinality({i \in Ids : heap[i].cls = "Bias"})
    /\ numbFlat' = numbFlat - Cardinality({i \in Ids : heap[i].cls = "Flat"})
    /\ numbImages' = numbImages - Cardinality({i \in Ids : heap[i].cls = "Image"})
    /\ last' = Call("clearLoadedImages", <<>>, "ok", 0)
    /\ UNCHANGED <<held, exited>>

\* the heap after a call on heap[i] and heap[j] that returns r
Stored(i, j, r) ==
    LET h == [heap EXCEPT ![i] = r.self, ![j] = r.other]
    IN  IF r.ret = <<>> THEN h ELSE Append(h, r.ret[1])

\* __del__ of Bias, Flat and Image: the counter of class cls after the
\* instances in dropped are finalized
AfterDel(counter, cls, dropped) ==
    counter - Cardinality({k \in DOMAIN dropped : dropped[k].cls = cls})

Finalize(dropped) ==
    /\ numbBias' = AfterDel(numbBias, "Bias", dropped)
    /\ numbFlat' = AfterDel(numbFlat, "Flat", dropped)
    /\ numbImages' = AfterDel(numbImages, "Image", dropped)

Combined(op, i, j, r) ==
    /\ heap' = Stored(i, j, r)
    /\ Finalize(r.dropped)
    /\ last' = Call(op, <<i, j>>, r.outcome, IF r.ret = <<>> THEN 0 ELSE Len(heap) + 1)
    /\ UNCHANGED <<held, exited>>

Combine(op, i, j, r) ==
    /\ Step
    /\ Combined(op, i, j, r)

\* heap[i] + heap[j]
Add(i, j) == Combine("add", i, j, add(heap[i], heap[j]))

\* heap[i] - heap[j]
Sub(i, j) == Combine("sub", i, j, sub(heap[i], heap[j]))

\* heap[i].__div__(heap[j])
Div(i, j) == Combine("div", i, j, div(heap[i], heap[j]))

\* heap[i].subtractBias(heap[j])
SubtractBias(i, j) ==
    /\ Step
    /\ heap[i].cls = "Image"
    /\ LET r == subtractBias(heap[i], heap[j])
       IN  /\ heap' = [heap EXCEPT ![i] = r.self, ![j] = r.other]
           /\ Finalize(r.dropped)
           /\ last' = Call("subtractBias", <<i, j>>, r.outcome, 0)
    /\ UNCHANGED <<held, exited>>

\* heap[i].divideFlat(heap[j])
DivideFlat(i, j) ==
    /\ Step
    /\ heap[i].cls = "Image"
    /\ LET r == divideFlat(heap[i], heap[j])
       IN  /\ heap' = [heap EXCEPT ![i] = r.self, ![j] = r.other]
           /\ Finalize(r.dropped)
           /\ last' = Call("divideFlat", <<i, j>>, r.outcome, 0)
    /\ UNCHANGED <<held, exited>>

\* heap[i].scale(min_cut = ..., max_cut = ...)
Scale(i, min_cut, max_cut) ==
    /\ Step
    /\ LET r == scale(heap[i], min_cut, max_cut)
       IN  /\ heap' = [heap EXCEPT ![i] = r.self]
           /\ last' = Call("scale", <<i>>, r.outcome, 0)
    /\ UNCHANGED <<held, numbBias, numbFlat, numbImages, exited>>

\* DataEnc.avg(*args), args the frames heap[args[1]], heap[args[2]], ...
Avg(args) ==
    /\ Step
    /\ LET r == avg([k \in DOMAIN args |-> heap[args[k]]])
       IN  last' = Call("avg", args, r.outcome, 0)
    /\ UNCHANGED <<heap, held, numbBias, numbFlat, numbImages, exited>>

\* the argument lists of avg tried: indices in non-decreasing order
ArgLists ==
    UNION {{args \in [1..n -> Ids] :
               \A k \in 1..(n - 1) : args[k] <= args[k + 1]} : n \in 0..MaxArgs}

Next ==
    \/ \E file \in Files, so \in BOOLEAN, rc \in BOOLEAN :
          NewBias(file[1], file[2], so, rc)
    \/ \E file \in Files, so \in BOOLEAN, rc \in BOOLEAN :
          NewImage(file[1], file[2], so, rc)
    \/ \E file \in Files, so \in BOOLEAN, rc \in BOOLEAN :
          NewFlat(file[1], file[2], so, rc)
    \/ \E cls \in Classes : NewMissing(cls)
    \/ \E cls \in Classes : ReleaseException(cls)
    \/ \E i \in Ids : Release(i)
    \/ clearLoadedImages
    \/ \E i \in Ids, j \in Ids : Add(i, j)
    \/ \E i \in Ids, j \in Ids : Sub(i, j)
    \/ \E i \in Ids, j \in Ids : Div(i, j)
    \/ \E i \in Ids, j \in Ids : SubtractBias(i, j)
    \/ \E i \in Ids, j \in Ids : DivideFlat(i, j)
    \/ \E i \in Ids, min_cut \in Cuts, max_cut \in Cuts : Scale(i, min_cut, max_cut)
    \/ \E args \in ArgLists : Avg(args)

Spec == Init /\ [][Next]_vars

\* the geometry runs: one frame is constructed from a file of any header
\* of Headers, then scaled
GeometryNext ==
    \/ \E g \in Headers, so \in BOOLEAN, rc \in BOOLEAN :
          heap = <<>> /\ NewBias(PathA, g, so, rc)
    \/ \E g \in Headers, so \in BOOLEAN, rc \in BOOLEAN :
          heap = <<>> /\ NewImage(PathB, g, so, rc)
    \/ \E i \in Ids, min_cut \in Cuts, max_cut \in Cuts : Scale(i, min_cut, max_cut)

GeometrySpec == Init /\ [][GeometryNext]_vars

\* the accessor runs: each of the files of three observations is loaded
\* at most once, and the frames are added to and subtracted from each
\* other, in runs of up to MaxAccessorSteps calls
AccessorStep ==
    /\ ~exited
    /\ steps < MaxAccessorSteps
    /\ steps' = steps + 1

NotLoaded(path) == \A i \in Ids : heap[i].name # <<NameOf(path)>>

AccessorLoad(path, g, so, rc) ==
    /\ AccessorStep
    /\ NotLoaded(path)
    /\ BiasLoaded(path, g, so, rc)

AccessorAdd(i, j) ==
    AccessorStep /\ Combined("add", i, j, add(heap[i], heap[j]))

AccessorSub(i, j) ==
    AccessorStep /\ Combined("sub", i, j, sub(heap[i], heap[j]))

AccessorNext ==
    \/ \E file \in ObservedFiles, so \in BOOLEAN, rc \in BOOLEAN :
          AccessorLoad(file[1], file[2], so, rc)
    \/ \E i \in Ids, j \in Ids : AccessorAdd(i, j)
    \/ \E i \in Ids, j \in Ids : AccessorSub(i, j)

AccessorSpec == Init /\ [][AccessorNext]_vars

(***************************************************************************)
(* What the claims speak of.                                               *)
(***************************************************************************)
CombineOps == {"add", "sub", "div"}

\* the three regions of a and b have the same shapes
SameShapes(a, b) ==
    /\ a.prescan.shape = b.prescan.shape
    /\ a.image.shape = b.image.shape
    /\ a.postscan.shape = b.postscan.shape

\* x and y are equal element by element, a NaN counting as equal to a NaN
ArraySame(x, y) ==
    /\ x.shape = y.shape
    /\ \A i \in 1..x.shape[1], j \in 1..x.shape[2] :
          \/ FEq(x.v[i][j], y.v[i][j])
          \/ (IsNaN(x.v[i][j]) /\ IsNaN(y.v[i][j]))

AllFinite(a) == \A x \in Samples(a) : IsFinite(x)

FrameFinite(fr) ==
    /\ AllFinite(fr.prescan)
    /\ AllFinite(fr.image)
    /\ AllFinite(fr.original)
    /\ AllFinite(fr.postscan)

\* the operands and the result of the last call
LastSelf == heap[last.args[1]]

LastOther == heap[last.args[2]]

LastRet == heap[last.ret]

\* C1 (as claimed): after A + B on frames of identical region shapes, each
\* of prescan, active, postscan and original of the result is A's array plus
\* B's array, element by element.
C1_AddIsSum ==
    (/\ last.op = "add"
     /\ last.outcome = "ok"
     /\ SameShapes(LastSelf, LastOther))
    => /\ ArraySame(LastRet.prescan, InPlace("add", LastSelf.prescan, LastOther.prescan))
       /\ ArraySame(LastRet.image, InPlace("add", LastSelf.image, LastOther.image))
       /\ ArraySame(LastRet.postscan, InPlace("add", LastSelf.postscan, LastOther.postscan))
       /\ ArraySame(LastRet.original, InPlace("add", LastSelf.original, LastOther.original))

\* C2 (as claimed): the names and headers of a combination are those of A
\* followed by all of those of B.
C2_NamesConcatenate ==
    (last.op \in CombineOps /\ last.outcome = "ok")
    => /\ LastRet.name = LastSelf.name \o LastOther.name
       /\ LastRet.header = LastSelf.header \o LastOther.header

\* C3: a call of __add__, __sub__ or __div__, returning an instance or not,
\* leaves every object that existed before it as it was, and an instance it
\* returns is none of them.
C3_OperandsUnchanged ==
    [][(last'.op \in CombineOps /\ steps' # steps)
        => /\ \A i \in Ids : heap'[i] = heap[i]
           /\ last'.outcome = "ok"
                => last'.ret \notin Ids /\ last'.ret \in DOMAIN heap']_vars

C3_Witness ==
    /\ last.op \in CombineOps
    /\ last.outcome = "ok"
    /\ last.ret \notin {last.args[1], last.args[2]}
    /\ LastRet.image # LastSelf.image

\* (A + B) - B for two frames, as the methods compute it
RoundTrip(a, b) == sub(add(a, b).ret[1], b).ret[1]

RestoresRegions(a, b) ==
    LET r == RoundTrip(a, b)
    IN  /\ ArraySame(r.prescan, a.prescan)
        /\ ArraySame(r.image, a.image)
        /\ ArraySame(r.postscan, a.postscan)

\* the frames there are
Frames == {heap[i] : i \in Ids}

\* C4 (as claimed): for all frames A and B of identical region shapes,
\* (A + B) - B has the prescan, active and postscan arrays of A.
C4_RoundTrip ==
    \A a \in Frames, b \in Frames : SameShapes(a, b) => RestoresRegions(a, b)

\* C4 (amended): the same, for B holding finite samples only.
C4_RoundTripFinite ==
    \A a \in Frames, b \in Frames :
        (SameShapes(a, b) /\ FrameFinite(b)) => RestoresRegions(a, b)

\* the last call is S - B, S a frame made as A + B from frames A and B that
\* were there before it, B finite and not all zero: it changed the active
\* region and gave back that of A
C4_Witness ==
    /\ last.op = "sub"
    /\ last.outcome = "ok"
    /\ last.args[2] < last.args[1]
    /\ FrameFinite(LastOther)
    /\ \E i \in 1..(last.args[1] - 1) :
          /\ SameShapes(heap[i], LastOther)
          /\ LastSelf = add(heap[i], LastOther).ret[1]
          /\ LastRet.image # LastSelf.image
          /\ ArraySame(LastRet.image, heap[i].image)
          /\ ArraySame(LastRet.prescan, heap[i].prescan)
          /\ ArraySame(LastRet.postscan, heap[i].postscan)

\* C5: every frame has as many names as headers, and at least one.
C5_NamesParallelHeaders ==
    \A i \in Ids :
        /\ Len(heap[i].name) = Len(heap[i].header)
        /\ Len(heap[i].name) >= 1

\* a frame made of three constituents exists
C5_Witness == \E i \in Ids : Len(heap[i].name) = 3 /\ Len(heap[i].header) = 3

\* C6 (as claimed): a combination of two frames of which a region
\* differs in shape raises an error; it returns neither an instance nor None.
C6_MismatchRaises ==
    (last.op \in CombineOps /\ ~SameShapes(LastSelf, LastOther))
    => last.outcome \notin {"ok", "None"}

\* C7 (as claimed): each completed S.subtractBias(B), S an Image and B a
\* Bias of the same geometry, leaves in the object S its active array minus
\* that of B and its names and headers with those of B appended (so k calls
\* subtract k times and append k times).
C7_SubtractBiasInPlace ==
    [][(/\ last'.op = "subtractBias"
        /\ steps' # steps
        /\ last'.outcome = "ok"
        /\ heap[last'.args[2]].cls = "Bias"
        /\ SameShapes(heap[last'.args[1]], heap[last'.args[2]]))
        => /\ ArraySame(heap'[last'.args[1]].image,
                        InPlace("sub", heap[last'.args[1]].image,
                                heap[last'.args[2]].image))
           /\ heap'[last'.args[1]].name
                 = Append(heap[last'.args[1]].name, heap[last'.args[2]].name[1])
           /\ heap'[last'.args[1]].header
                 = Append(heap[last'.args[1]].header, heap[last'.args[2]].header[1])]_vars

\* C8 (as claimed): the flags of an Image are false after construction, a
\* completed subtractBias (divideFlat) leaves isBiasCorrected
\* (isFlatCorrected) of its receiver true, and a flag that is true stays true.
C8_FlagsFollowCorrections ==
    [][/\ (last'.op = "Image" /\ last'.outcome = "ok")
            => /\ ~heap'[last'.ret].attrs.isBiasCorrected
               /\ ~heap'[last'.ret].attrs.isFlatCorrected
       /\ (last'.op = "subtractBias" /\ last'.outcome = "ok")
            => heap'[last'.args[1]].attrs.isBiasCorrected
       /\ (last'.op = "divideFlat" /\ last'.outcome = "ok")
            => heap'[last'.args[1]].attrs.isFlatCorrected
       /\ \A i \in Ids :
            heap[i].cls = "Image"
                => /\ heap[i].attrs.isBiasCorrected => heap'[i].attrs.isBiasCorrected
                   /\ heap[i].attrs.isFlatCorrected => heap'[i].attrs.isFlatCorrected]_vars

HasZero(a) == \E x \in Samples(a) : IsZero(x)

\* C9 (as claimed): S.divideFlat(F) fails and changes nothing of S when the
\* active array of F holds a zero (any error raised counts as the failure);
\* otherwise it completes, the active array of S is divided by that of F
\* and isFlatCorrected of S is true.
C9_DivideFlatAllOrNothing ==
    [][(/\ last'.op = "divideFlat"
        /\ steps' # steps
        /\ SameShapes(heap[last'.args[1]], heap[last'.args[2]]))
        => IF HasZero(heap[last'.args[2]].image)
           THEN /\ last'.outcome # "ok"
                /\ heap'[last'.args[1]] = heap[last'.args[1]]
           ELSE /\ last'.outcome = "ok"
                /\ ArraySame(heap'[last'.args[1]].image,
                             InPlace("div", heap[last'.args[1]].image,
                                     heap[last'.args[2]].image))
                /\ heap'[last'.args[1]].attrs.isFlatCorrected]_vars

\* the frames a call of avg was given
LastArgs == [k \in DOMAIN last.args |-> heap[last.args[k]]]

RECURSIVE NamesIn(_)
NamesIn(frames) ==
    IF frames = <<>> THEN 0 ELSE Len(Head(frames).name) + NamesIn(Tail(frames))

\* the element-wise sum of the arrays in one field of some frames
RECURSIVE SumOf(_, _)
SumOf(frames, field) ==
    IF Len(frames) = 1 THEN Head(frames)[field]
    ELSE InPlace("add", Head(frames)[field], SumOf(Tail(frames), field))

\* the element-wise mean of the arrays in one field of some frames
MeanOf(frames, field) ==
    LET total == SumOf(frames, field)
        r == total.shape[1]
        c == total.shape[2]
    IN  Array(r, c, [i \in 1..r, j \in 1..c |->
                        FDiv(total.v[i][j], Float(Len(frames)))])

\* C10 (as claimed): avg over n >= 1 frames of one geometry returns a frame
\* whose arrays are the sums of the arrays of the inputs over n and which
\* has as many names and headers as the inputs have together.
C10_AvgIsMean ==
    (/\ last.op = "avg"
     /\ Len(last.args) >= 1
     /\ \A k \in DOMAIN last.args : SameShapes(LastArgs[k], LastArgs[1]))
    => /\ last.outcome = "ok"
       /\ last.ret \in Ids
       /\ Len(LastRet.name) = NamesIn(LastArgs)
       /\ Len(LastRet.header) = NamesIn(LastArgs)
       /\ \A field \in {"prescan", "image", "original", "postscan"} :
             ArraySame(LastRet[field], MeanOf(LastArgs, field))

\* the instances of a class there are: the frames the caller holds and the
\* instances a raised exception still references
Live(cls) == Cardinality({i \in Ids : heap[i].cls = cls}) + held[cls]

\* C11 (as claimed): the counter of each class is the number of instances
\* of the class there are, and so is never negative.
C11_CountersCountLive ==
    /\ getNumbBias = Live("Bias")
    /\ getNumbFlat = Live("Flat")
    /\ getNumbImagesOpened = Live("Image")

\* a header that splits the columns into scans and a non-empty active region
ValidHeader(h) ==
    /\ h.PRESCAN >= 0
    /\ h.POSTSCAN >= 0
    /\ h.PRESCAN + h.POSTSCAN < h.NAXIS1

\* the last call constructed a frame from a file
Constructed == last.op \in {"Bias", "Image"} /\ last.outcome = "ok"

\* the header and the array of the file the last call read
LastHeader == LastRet.header[1]

LastRaw == FitsOpen(last.args[1], LastHeader).data

\* C12: a frame constructed from a file with a valid header has as prescan
\* the first PRESCAN columns of the file, as postscan its last POSTSCAN
\* columns and as active region the columns between them (read as they are
\* when no overscan is subtracted), each NAXIS2 high; width is the number
\* of columns of the active region, width + PRESCAN + POSTSCAN is NAXIS1
\* and height is NAXIS2.
C12_RegionsSplitColumns ==
    (Constructed /\ ValidHeader(LastHeader))
    => LET h == LastHeader
           f == LastRet
       IN  /\ f.prescan.shape = <<h.PRESCAN, h.NAXIS2>>
           /\ \A k \in 1..h.PRESCAN, r \in 1..h.NAXIS2 :
                 f.prescan.v[k][r] = LastRaw.v[r][k]
           /\ f.postscan.shape = <<h.POSTSCAN, h.NAXIS2>>
           /\ \A k \in 1..h.POSTSCAN, r \in 1..h.NAXIS2 :
                 f.postscan.v[k][r] = LastRaw.v[r][h.NAXIS1 - h.POSTSCAN + k]
           /\ f.image.shape = <<h.NAXIS2, h.NAXIS1 - h.PRESCAN - h.POSTSCAN>>
           /\ last.args[2] = FALSE
                 => \A r \in 1..h.NAXIS2, k \in 1..f.image.shape[2] :
                       f.image.v[r][k] = LastRaw.v[r][h.PRESCAN + k]
           /\ width(f) = f.image.shape[2]
           /\ width(f) + h.PRESCAN + h.POSTSCAN = h.NAXIS1
           /\ height(f) = h.NAXIS2
           /\ height(f) = f.image.shape[1]

\* a frame was constructed, overscans kept, from a file two rows high with
\* one prescan column, one active column and one postscan column
C12_Witness ==
    /\ Constructed
    /\ last.args[2] = FALSE
    /\ LastHeader.NAXIS1 = 3
    /\ LastHeader.NAXIS2 = 2
    /\ LastHeader.PRESCAN = 1
    /\ LastHeader.POSTSCAN = 1
    /\ LastRet.image.v = <<<<LastRaw.v[1][2]>>, <<LastRaw.v[2][2]>>>>

\* C13 (as claimed): no frame is constructed from a file whose header has
\* a negative scan width or scans that leave no active column.
C13_InvalidHeaderRejected == Constructed => ValidHeader(LastHeader)

\* C14 (as claimed): the process is never ended, and a constructor called
\* on a path with no file there ends in a typed failure the caller gets.
C14_NeverExits ==
    /\ ~exited
    /\ (last.op \in {"Bias", "Flat", "Image"} /\ Len(last.args) = 1)
          => last.outcome \in {"FileNotFoundError", "UnsupportedFormatError"}

\* value is what the claim has an accessor of key return on frame fr: the
\* value of the one header, or the values of the n > 1 headers in their order
PerConstituent(value, fr, key) ==
    IF Len(fr.header) = 1 THEN value = fr.header[1][key]
    ELSE value = [i \in 1..Len(fr.header) |-> fr.header[i][key]]

\* the accessors other than date return the values of the headers
OthersPerConstituent(fr) ==
    /\ PerConstituent(airmass(fr), fr, "AIRMASS")
    /\ PerConstituent(dec(fr), fr, "TELDEC")
    /\ PerConstituent(expTime(fr), fr, "EXPTIME")
    /\ PerConstituent(filter(fr), fr, "FILTERS")
    /\ PerConstituent(gain(fr), fr, "GAIN")
    /\ PerConstituent(hourAngle(fr), fr, "HA")
    /\ PerConstituent(plateScale(fr), fr, "SCALE")
    /\ PerConstituent(obsType(fr), fr, "OBSTYPE")
    /\ PerConstituent(ra(fr), fr, "TELRA")

\* the airmass values of a frame as a list
AirmassList(fr) == IF Len(fr.header) = 1 THEN <<airmass(fr)>> ELSE airmass(fr)

Single(fr) == Len(fr.header) = 1

\* fr is the sum of two single frames there are
SumOfTwo(fr) ==
    \E p \in Ids, q \in Ids :
        /\ Single(heap[p])
        /\ Single(heap[q])
        /\ add(heap[p], heap[q]).outcome = "ok"
        /\ fr = add(heap[p], heap[q]).ret[1]

\* the last call combined three single frames: it added a single frame to
\* the sum of two, (A + B) + C, or the sum of two to a single frame,
\* A + (B + C)
ThreeCombined ==
    /\ last.op = "add"
    /\ last.outcome = "ok"
    /\ \/ SumOfTwo(LastSelf) /\ Single(LastOther)
       \/ Single(LastSelf) /\ SumOfTwo(LastOther)

\* three single frames combined give their airmass values in combination
\* order: those of the left operand, then those of the right operand
AirmassInOrder ==
    ThreeCombined
    => AirmassList(LastRet) = AirmassList(LastSelf) \o AirmassList(LastOther)

\* C15 (as claimed): every header-derived accessor, date among them,
\* returns the header value of a single frame and the list of the header
\* values, in the order of the headers, of a combined frame; three single
\* frames combined in order, as (A + B) + C or as A + (B + C), give the
\* list of their three airmass values in that order.
C15_AccessorsPerConstituent ==
    /\ \A i \in Ids :
          /\ OthersPerConstituent(heap[i])
          /\ PerConstituent(date(heap[i]), heap[i], "DATE-OBS")
    /\ AirmassInOrder

\* the columns of the file that a valid header h makes scan columns, and
\* the samples of the file in them
ScanColumns(h) ==
    [k \in 1..(h.PRESCAN + h.POSTSCAN) |->
        IF k <= h.PRESCAN THEN k ELSE h.NAXIS1 - h.POSTSCAN + (k - h.PRESCAN)]

ScanSamples(raw, h) ==
    Flatten([k \in 1..(h.PRESCAN + h.POSTSCAN) |->
                [r \in 1..h.NAXIS2 |-> raw.v[r][ScanColumns(h)[k]]]])

\* the mean of the scan samples: their sum over their number (0 / 0, which
\* is NaN, when there is none)
ScanMean(raw, h) ==
    FDiv(FSum(ScanSamples(raw, h)), Float(Len(ScanSamples(raw, h))))

\* C16: of a frame constructed from a file with a valid header, each active
\* sample is the sample of the file less the mean of all scan samples of
\* the file when overscans are subtracted, and the sample of the file
\* when they are not; the scans are the scan columns of the file either way.
C16_OverscanMeanSubtracted ==
    (Constructed /\ ValidHeader(LastHeader))
    => LET h == LastHeader
           f == LastRet
           m == ScanMean(LastRaw, h)
       IN  /\ \A r \in 1..h.NAXIS2, k \in 1..(h.NAXIS1 - h.PRESCAN - h.POSTSCAN) :
                 f.image.v[r][k] =
                     IF last.args[2] THEN FSub(LastRaw.v[r][h.PRESCAN + k], m)
                     ELSE LastRaw.v[r][h.PRESCAN + k]
           /\ \A k \in 1..h.PRESCAN, r \in 1..h.NAXIS2 :
                 f.prescan.v[k][r] = LastRaw.v[r][k]
           /\ \A k \in 1..h.POSTSCAN, r \in 1..h.NAXIS2 :
                 f.postscan.v[k][r] = LastRaw.v[r][h.NAXIS1 - h.POSTSCAN + k]

\* a frame was constructed, overscans subtracted, from a file two rows high
\* with a prescan and a postscan column whose means differ, and its active
\* samples are finite and not those of the file
C16_Witness ==
    /\ Constructed
    /\ last.args[2] = TRUE
    /\ LastHeader.NAXIS2 = 2
    /\ LastHeader.PRESCAN = 1
    /\ LastHeader.POSTSCAN = 1
    /\ LastHeader.NAXIS1 = 3
    /\ AllFinite(LastRet.image)
    /\ LastRet.image.v[1][1] # LastRaw.v[1][2]
    /\ LastRet.image.v[2][1] = FSub(LastRaw.v[2][2], ScanMean(LastRaw, LastHeader))

\* scale with cuts p2 after scale with cuts p1 leaves the active array of
\* scale with cuts p2 alone
RescaleTwice(fr) ==
    \A p1 \in Cuts \X Cuts, p2 \in Cuts \X Cuts :
        scale(scale(fr, p1[1], p1[2]).self, p2[1], p2[2]).self.image
            = scale(fr, p2[1], p2[2]).self.image

\* C17: a call of scale on a frame, constructed or combined, scaled before
\* or not, leaves its original, prescan, postscan, names and headers and
\* every other frame as they are; the active array it leaves is the
\* scaling of the original, so that scaling twice leaves what the second
\* scaling alone does.
C17_ScaleDerivesFromOriginal ==
    [][(last'.op = "scale" /\ steps' # steps)
        => LET i == last'.args[1]
           IN  /\ heap'[i].original = heap[i].original
               /\ heap'[i].prescan = heap[i].prescan
               /\ heap'[i].postscan = heap[i].postscan
               /\ heap'[i].name = heap[i].name
               /\ heap'[i].header = heap[i].header
               /\ \A k \in Ids : k # i => heap'[k] = heap[k]
               /\ Len(heap') = Len(heap)
               /\ last'.outcome = "ok"
                     => \E p \in Cuts \X Cuts :
                           heap'[i].image = ScaleImage(heap[i].original, p[1], p[2])
               /\ RescaleTwice(heap[i])]_vars

\* the last call scaled a combined frame that was scaled before, and its
\* active array is now neither the original nor what the other cuts give
C17_Witness ==
    /\ last.op = "scale"
    /\ last.outcome = "ok"
    /\ steps = 3
    /\ LET fr == heap[last.args[1]]
       IN  /\ Len(fr.header) = 2
           /\ fr.image # fr.original
           /\ \E p \in Cuts \X Cuts :
                 /\ fr.image = ScaleImage(fr.original, p[1], p[2])
                 /\ \E q \in Cuts \X Cuts :
                       fr.image # ScaleImage(fr.original, q[1], q[2])

\* C18 (as claimed): Flat(path, ...) on a file that is there completes and
\* gives a Flat whose isBiasCorrected reads false.
C18_FlatConstructs ==
    (last.op = "Flat" /\ Len(last.args) = 2)
    => /\ last.outcome = "ok"
       /\ last.ret \in Ids
       /\ LastRet.cls = "Flat"
       /\ LastRet.attrs.isBiasCorrected = FALSE

====
